---- MODULE Spec2Model ----
(***************************************************************************)
(* A model of extremevariantfilter: the library variant_filtering.py and   *)
(* the two scripts apply_filter.py and train_model.py.                     *)
(*                                                                         *)
(* Python strings are sequences of tokens.  A token is a substring that    *)
(* holds none of the separators the code splits on; a separator ("\t",     *)
(* ",", ".", "/", ";", ":", "=") is a token of its own.  Where the code    *)
(* counts characters (Check_SNP) every token is one character.             *)
(*                                                                         *)
(* A call returns Ok(v) or raises: Raise(e).                               *)
(***************************************************************************)
EXTENDS Integers, Sequences, FiniteSets, TLC

VARIABLES pc, input, ret, calls, header, vcf, info_fields, outfile,
          all_vcf, workers, results

vars == <<pc, input, ret, calls, header, vcf, info_fields, outfile,
          all_vcf, workers, results>>

(***************************************************************************)
(* Bounds of the model.                                                    *)
(***************************************************************************)
MaxRefLen == 2
MaxAltLen == 7
MaxDirs == 2
MaxNameParts == 3
MaxMetaLines == 3
MaxPaths == 2
MaxInfoParts == 3

(***************************************************************************)
(* Values and results.                                                     *)
(***************************************************************************)
None == "None"
\* no return yet; a returned value; a return of None; an exception
NoRet == [st |-> "pending"]
Ok(v) == [st |-> "ok", v |-> v]
RetNone == [st |-> "None"]
\* the output file: absent until it is opened for writing
NoFile == [exists |-> FALSE, lines |-> <<>>]
Raise(e) == [st |-> "raise", exc |-> e]
IsOk(r) == r.st = "ok"
IsRaise(r) == r.st = "raise"
Raises(r, e) == r.st = "raise" /\ r.exc = e

\* a sequence, or a function, with its elements computed once
Listed(f) == f \o <<>>
Stored(f) == f @@ <<>>

SeqsUpTo(S, n) == UNION {[1..k -> S] : k \in 0..n}
SeqsFromTo(S, m, n) == UNION {[1..k -> S] : k \in m..n}
SetMin(S) == CHOOSE x \in S : \A y \in S : x <= y

(***************************************************************************)
(* Python's str operations on token sequences.                             *)
(***************************************************************************)
\* sub in s
contains(s, sub) ==
    \E i \in 0..(Len(s) - Len(sub)) :
        \A j \in 1..Len(sub) : s[i + j] = sub[j]

RECURSIVE SplitFrom(_, _, _, _)
SplitFrom(s, sep, i, cur) ==
    IF i > Len(s) THEN <<cur>>
    ELSE IF s[i] = sep THEN <<cur>> \o SplitFrom(s, sep, i + 1, <<>>)
    ELSE SplitFrom(s, sep, i + 1, Append(cur, s[i]))

\* s.split(sep): never empty, "".split(sep) = [""]
split(s, sep) == SplitFrom(s, sep, 1, <<>>)

RECURSIVE join(_, _)
\* sep.join(parts)
join(parts, sep) ==
    IF Len(parts) = 0 THEN <<>>
    ELSE IF Len(parts) = 1 THEN parts[1]
    ELSE parts[1] \o <<sep>> \o join(Tail(parts), sep)

\* parts[0:-k]
dropLast(parts, k) ==
    IF Len(parts) <= k THEN <<>> ELSE SubSeq(parts, 1, Len(parts) - k)

\* parts.pop() and parts[-1:][0], on the never-empty result of split
last(parts) == parts[Len(parts)]

\* whether parts[i] exists (i counted from 0 as in the code)
hasItem(parts, i) == i + 1 <= Len(parts)
item(parts, i) == parts[i + 1]

(***************************************************************************)
(* Check_SNP: the library's and the apply script's are the same text.      *)
(***************************************************************************)
Check_SNP_FirstAltOnly(REF, ALT) ==
    IF contains(ALT, <<",">>)
    THEN IF Len(REF) = 1 /\ Len(item(split(ALT, ","), 0)) = 1
         THEN Ok(1) ELSE Ok(0)
    ELSE IF Len(REF) = 1 /\ Len(ALT) = 1 THEN Ok(1) ELSE Ok(0)

Check_SNP(REF, ALT) ==
    IF contains(ALT, <<",">>)
    THEN LET alts == split(ALT, ",") IN
         IF Len(REF) = 1
         THEN IF ~hasItem(alts, 0) THEN Raise("IndexError")
              ELSE IF Len(item(alts, 0)) = 1 THEN Ok(1)
              ELSE IF ~hasItem(alts, 1) THEN Raise("IndexError")
              ELSE IF Len(item(alts, 1)) = 1 THEN Ok(1)
              ELSE Ok(0)
         ELSE Ok(0)
    ELSE IF Len(REF) = 1 /\ Len(ALT) = 1 THEN Ok(1) ELSE Ok(0)

AF_Check_SNP(REF, ALT) ==
    IF contains(ALT, <<",">>)
    THEN LET alts == split(ALT, ",") IN
         IF Len(REF) = 1
         THEN IF ~hasItem(alts, 0) THEN Raise("IndexError")
              ELSE IF Len(item(alts, 0)) = 1 THEN Ok(1)
              ELSE IF ~hasItem(alts, 1) THEN Raise("IndexError")
              ELSE IF Len(item(alts, 1)) = 1 THEN Ok(1)
              ELSE Ok(0)
         ELSE Ok(0)
    ELSE IF Len(REF) = 1 /\ Len(ALT) = 1 THEN Ok(1) ELSE Ok(0)

(***************************************************************************)
(* Add_Filter: the library writes EVF_ tags, the apply script XGB_ tags.   *)
(***************************************************************************)
Add_Filter_TagsSwapped(Is_SNP, Predict) ==
    IF Is_SNP = 1 /\ Predict = 0 THEN "EVF_IND"
    ELSE IF Is_SNP = 0 /\ Predict = 0 THEN "EVF_SNP"
    ELSE "."

Add_Filter(Is_SNP, Predict) ==
    IF Is_SNP = 1 /\ Predict = 0 THEN "EVF_SNP"
    ELSE IF Is_SNP = 0 /\ Predict = 0 THEN "EVF_IND"
    ELSE "."

AF_Add_Filter(Is_SNP, Predict) ==
    IF Is_SNP = 1 /\ Predict = 0 THEN "XGB_SNP"
    ELSE IF Is_SNP = 0 /\ Predict = 0 THEN "XGB_IND"
    ELSE "."

(***************************************************************************)
(* Check_Type and Build_Model.  A Python value is tagged with its type:    *)
(* a str never equals an int.                                              *)
(***************************************************************************)
PyStr(s) == [type |-> "str", str |-> s]
PyInt(n) == [type |-> "int", int |-> n]
\* a != b
PyNe(a, b) ==
    IF a.type # b.type THEN TRUE
    ELSE IF a.type = "str" THEN a.str # b.str
    ELSE a.int # b.int
PyEq(a, b) == ~PyNe(a, b)

Check_Type_Or(poly) ==
    IF PyNe(poly, PyStr("SNP")) \/ PyNe(poly, PyStr("INDEL"))
    THEN Raise("ValueError")
    ELSE RetNone

Check_Type(poly) ==
    IF PyNe(poly, PyStr("SNP")) /\ PyNe(poly, PyStr("INDEL"))
    THEN Raise("ValueError")
    ELSE RetNone

XGBClassifier(n, njobs) ==
    [n_estimators |-> n, learning_rate |-> "0.3", max_depth |-> 6,
     random_state |-> 7, algorithm |-> "gbtree",
     objective |-> "binary:logistic", nthread |-> njobs]

Build_Model(poly, njobs) ==
    IF PyEq(poly, PyStr("SNP"))
    THEN Ok(<<"XGBoost('gbtree', 0.3, 6, 600)", XGBClassifier(600, njobs)>>)
    ELSE IF PyEq(poly, PyStr("INDEL"))
    THEN Ok(<<"XGBoost('gbtree', 0.3, 6, 1000)", XGBClassifier(1000, njobs)>>)
    ELSE Raise("ValueError")

(***************************************************************************)
(* Is_Gzipped and Get_Name.                                                *)
(***************************************************************************)
Is_Gzipped(path) == last(split(last(split(path, "/")), ".")) = <<"gz">>

Get_Name(path) ==
    LET filename == last(split(path, "/"))
        basename == IF Is_Gzipped(path)
                    THEN join(dropLast(split(filename, "."), 2), ".")
                    ELSE join(dropLast(split(filename, "."), 1), ".")
    IN  basename \o <<".", "filter", ".", "vcf">>

AF_Get_Name(path) ==
    LET filename == last(split(path, "/"))
        basename == join(dropLast(split(filename, "."), 1), ".")
    IN  basename \o <<".", "filter", ".", "vcf">>

(***************************************************************************)
(* Get_Header.  A file is a sequence of lines, a line a token sequence;    *)
(* readline() gives "" at the end of the file.  filter_written is a local  *)
(* of the scanning function that is only ever assigned True, so it is      *)
(* unbound until the first injection.                                      *)
(***************************************************************************)
startswithHash(line) == Len(line) > 0 /\ line[1] \in {"#", "##"}

readline(file, pos) == IF pos <= Len(file) THEN file[pos] ELSE <<>>

EVF_FilterLines ==
    << <<"##", "FILTER", "=<ID=EVF_SNP,Description=\"Likely FP SNP as determined by loaded model\">">>,
       <<"##", "FILTER", "=<ID=EVF_IND,Description=\"Likely FP InDel as determined by loaded model\">">> >>

XGB_FilterLines ==
    << <<"##", "FILTER", "=<ID=XGB_SNP,Description=\"Likely FP SNP as determined by loaded model\">">>,
       <<"##", "FILTER", "=<ID=XGB_IND,Description=\"Likely FP InDel as determined by loaded model\">">> >>

\* The while loop of read_header: the test is
\*   'FILTER' in newline or ("CHROM\tPOS" in newline and filter_written == False)
RECURSIVE read_header(_, _, _, _, _)
read_header(file, pos, hdr, filter_written, lines) ==
    LET newline == readline(file, pos) IN
    IF ~startswithHash(newline) THEN Ok(hdr)
    ELSE IF contains(newline, <<"FILTER">>)
    THEN read_header(file, pos + 1, hdr \o lines \o <<newline>>, "True", lines)
    ELSE IF contains(newline, <<"CHROM", "\t", "POS">>)
    THEN IF filter_written = "unbound" THEN Raise("UnboundLocalError")
         ELSE IF filter_written = "False"
         THEN read_header(file, pos + 1, hdr \o lines \o <<newline>>, "True", lines)
         ELSE read_header(file, pos + 1, Append(hdr, newline), filter_written, lines)
    ELSE read_header(file, pos + 1, Append(hdr, newline), filter_written, lines)

\* The library's read_header has no return statement: Get_Header gives None.
Get_Header(file) ==
    LET r == read_header(file, 1, <<>>, "unbound", EVF_FilterLines) IN
    IF IsRaise(r) THEN r ELSE RetNone

\* The apply script's Get_Header returns the list it built.
AF_Get_Header(file) == read_header(file, 1, <<>>, "unbound", XGB_FilterLines)

(***************************************************************************)
(* Check_VCF_Paths: the library's, and below the train script's copy of    *)
(* it.  zip stops at the shorter of its two lists.                         *)
(***************************************************************************)
zip(a, b) ==
    [i \in 1..(IF Len(a) <= Len(b) THEN Len(a) ELSE Len(b)) |-> <<a[i], b[i]>>]

Check_VCF_Paths(tp_vcf_path, fp_vcf_path) ==
    IF /\ contains(tp_vcf_path, <<",">>) \/ contains(fp_vcf_path, <<",">>)
       /\ Len(split(tp_vcf_path, ",")) # Len(split(fp_vcf_path, ","))
    THEN Raise("ValueError")
    ELSE Ok(zip(split(tp_vcf_path, ","), split(fp_vcf_path, ",")))

\* a check that asks for a comma in both strings
TM_Check_VCF_Paths_And(tp_vcf_path, fp_vcf_path) ==
    IF /\ contains(tp_vcf_path, <<",">>) /\ contains(fp_vcf_path, <<",">>)
       /\ Len(split(tp_vcf_path, ",")) # Len(split(fp_vcf_path, ","))
    THEN Raise("ValueError")
    ELSE Ok(zip(split(tp_vcf_path, ","), split(fp_vcf_path, ",")))

TM_Check_VCF_Paths(tp_vcf_path, fp_vcf_path) ==
    IF /\ contains(tp_vcf_path, <<",">>) \/ contains(fp_vcf_path, <<",">>)
       /\ Len(split(tp_vcf_path, ",")) # Len(split(fp_vcf_path, ","))
    THEN Raise("ValueError")
    ELSE Ok(zip(split(tp_vcf_path, ","), split(fp_vcf_path, ",")))

(***************************************************************************)
(* Split_Info: the parts of INFO that hold one of the six "KEY=" texts,    *)
(* each split at "=" and made a dict entry.                                *)
(***************************************************************************)
\* a missing cell of a table
NaN == <<"float('nan')">>

InfoFields ==
    << <<"QD", "=">>, <<"MQ", "=">>, <<"MQRankSum", "=">>, <<"FS", "=">>,
       <<"ReadPosRankSum", "=">>, <<"SOR", "=">> >>

KeptParts(info) ==
    SelectSeq(split(info, ";"),
              LAMBDA part : \E f \in 1..Len(InfoFields) : contains(part, InfoFields[f]))

\* dict(pairs): a later pair replaces an earlier one with the same key
RECURSIVE dict(_)
dict(pairs) ==
    IF pairs = <<>> THEN <<>>
    ELSE LET head == dropLast(pairs, 1)
             kv == last(pairs)
         IN  SelectSeq(dict(head), LAMBDA e : e[1] # kv[1]) \o <<kv>>

AF_Split_Info(info) ==
    IF info = NaN THEN Raise("AttributeError")
    ELSE LET kept == KeptParts(info)
             pairs == Listed([i \in 1..Len(kept) |-> split(kept[i], "=")])
         IN  IF \E i \in 1..Len(pairs) : Len(pairs[i]) # 2
             THEN Raise("ValueError")
             ELSE Ok(dict(pairs))

\* the library's Split_Info: the same text
Split_Info(info) ==
    IF info = NaN THEN Raise("AttributeError")
    ELSE LET kept == KeptParts(info)
             pairs == Listed([i \in 1..Len(kept) |-> split(kept[i], "=")])
         IN  IF \E i \in 1..Len(pairs) : Len(pairs[i]) # 2
             THEN Raise("ValueError")
             ELSE Ok(dict(pairs))

(***************************************************************************)
(* The inputs of the single calls.                                         *)
(***************************************************************************)
RefStrings == SeqsUpTo({"A", "T"}, MaxRefLen)
AltStrings == SeqsUpTo({"A", ","}, MaxAltLen)

PolyValues ==
    {PyStr("SNP"), PyStr("INDEL"), PyStr("george"), PyStr("SNPS"),
     PyStr("INDALS"), PyStr("snp"), PyStr(""), PyInt(9)}

\* made/up/path.vcf.gz: directories, then a file name of parts joined by "."
Directories == SeqsUpTo({"made", "up"}, MaxDirs)
NameParts == SeqsFromTo({"path", "vcf", "gz"}, 1, MaxNameParts)
Tokens(names) == [i \in 1..Len(names) |-> <<names[i]>>]
Paths ==
    {join(Tokens(d) \o <<join(Tokens(n), ".")>>, "/") :
        d \in Directories, n \in NameParts}

\* Header lines: "##" metadata, the "#CHROM" column line, and data lines.
FileformatLine == <<"##", "fileformat=VCFv4.2">>
OldFilterLine == <<"##", "FILTER", "=<ID=LowQual,Description=\"Low quality\">">>
InfoLine == <<"##", "INFO", "=<ID=QD,Number=1,Type=Float>">>
MetaLines == {FileformatLine, OldFilterLine, InfoLine}
ColumnLine ==
    <<"#", "CHROM", "\t", "POS", "\t", "ID", "\t", "REF", "\t", "ALT", "\t",
      "QUAL", "\t", "FILTER", "\t", "INFO", "\t", "FORMAT", "\t", "S1">>
\* a column line cut after QUAL: it names no FILTER column
ShortColumnLine ==
    <<"#", "CHROM", "\t", "POS", "\t", "ID", "\t", "REF", "\t", "ALT", "\t",
      "QUAL">>
DataLine ==
    <<"1", "\t", "100", "\t", ".", "\t", "A", "\t", "T", "\t", "30", "\t",
      ".", "\t", "QD=2.0", "\t", "GT:AD", "\t", "0/1:10,5">>
HeaderFiles ==
    {meta \o cols \o data :
        meta \in SeqsUpTo(MetaLines, MaxMetaLines),
        cols \in {<<>>, <<ColumnLine>>, <<ShortColumnLine>>},
        data \in {<<>>, <<DataLine>>, <<DataLine, OldFilterLine>>}}

\* --true-pos and --false-pos: up to MaxPaths names joined by ","; a name
\* may be empty ("tp.vcf," names two paths)
PathNames == {<<"tp.vcf">>, <<"fp.vcf">>, <<>>}
PathStrings == {join(names, ",") : names \in SeqsFromTo(PathNames, 1, MaxPaths)}

\* INFO strings: up to MaxInfoParts entries joined by ";": recognized keys,
\* a key that ends in a recognized name, a flag, an unrecognized key
InfoParts ==
    {<<"QD", "=", "2.0">>, <<"MQ", "=", "60.0">>, <<"RAW_", "MQ", "=", "5">>,
     <<"DB">>, <<"AC", "=", "1">>}
InfoStrings == {join(parts, ";") : parts \in SeqsUpTo(InfoParts, MaxInfoParts)}

UnitInputs ==
    [fn : {"Check_SNP", "AF_Check_SNP"}, REF : RefStrings, ALT : AltStrings]
    \cup [fn : {"Add_Filter", "AF_Add_Filter"}, Is_SNP : {0, 1}, Predict : {0, 1}]
    \cup [fn : {"Check_Type"}, poly : PolyValues]
    \cup [fn : {"Build_Model"}, poly : PolyValues, njobs : {2}]
    \cup [fn : {"Get_Name", "AF_Get_Name"}, path : Paths]
    \cup [fn : {"Get_Header", "AF_Get_Header"}, file : HeaderFiles]
    \cup [fn : {"Check_VCF_Paths"}, tp_vcf_path : PathStrings,
           fp_vcf_path : PathStrings]
    \cup [fn : {"Split_Info", "AF_Split_Info"}, info : InfoStrings]

(***************************************************************************)
(* Spec: one call of one function on one input.                            *)
(***************************************************************************)
Idle ==
    /\ calls = {}
    /\ header = <<>>
    /\ vcf = None
    /\ info_fields = None
    /\ outfile = NoFile
    /\ all_vcf = <<>>
    /\ workers = <<>>
    /\ results = <<>>

Init ==
    /\ pc = "call"
    /\ input \in UnitInputs
    /\ ret = NoRet
    /\ Idle

Return(r) ==
    /\ ret' = r
    /\ pc' = "done"
    /\ UNCHANGED <<input, calls, header, vcf, info_fields, outfile,
                   all_vcf, workers, results>>

Call_Check_SNP ==
    /\ pc = "call" /\ input.fn = "Check_SNP"
    /\ Return(Check_SNP(input.REF, input.ALT))

Call_AF_Check_SNP ==
    /\ pc = "call" /\ input.fn = "AF_Check_SNP"
    /\ Return(AF_Check_SNP(input.REF, input.ALT))

Call_Add_Filter ==
    /\ pc = "call" /\ input.fn = "Add_Filter"
    /\ Return(Ok(Add_Filter(input.Is_SNP, input.Predict)))

Call_AF_Add_Filter ==
    /\ pc = "call" /\ input.fn = "AF_Add_Filter"
    /\ Return(Ok(AF_Add_Filter(input.Is_SNP, input.Predict)))

Call_Check_Type ==
    /\ pc = "call" /\ input.fn = "Check_Type"
    /\ Return(Check_Type(input.poly))

Call_Build_Model ==
    /\ pc = "call" /\ input.fn = "Build_Model"
    /\ Return(Build_Model(input.poly, input.njobs))

Call_Get_Name ==
    /\ pc = "call" /\ input.fn = "Get_Name"
    /\ Return(Ok(Get_Name(input.path)))

Call_AF_Get_Name ==
    /\ pc = "call" /\ input.fn = "AF_Get_Name"
    /\ Return(Ok(AF_Get_Name(input.path)))

\* header holds the list the scan built (the local of read_header), ret
\* what the call gave back.
Built(r) == IF IsOk(r) THEN r.v ELSE <<>>

Call_Get_Header ==
    /\ pc = "call" /\ input.fn = "Get_Header"
    /\ ret' = Get_Header(input.file)
    /\ header' = Built(read_header(input.file, 1, <<>>, "unbound", EVF_FilterLines))
    /\ pc' = "done"
    /\ UNCHANGED <<input, calls, vcf, info_fields, outfile, all_vcf,
                   workers, results>>

Call_AF_Get_Header ==
    /\ pc = "call" /\ input.fn = "AF_Get_Header"
    /\ ret' = AF_Get_Header(input.file)
    /\ header' = Built(AF_Get_Header(input.file))
    /\ pc' = "done"
    /\ UNCHANGED <<input, calls, vcf, info_fields, outfile, all_vcf,
                   workers, results>>

Call_Check_VCF_Paths ==
    /\ pc = "call" /\ input.fn = "Check_VCF_Paths"
    /\ Return(Check_VCF_Paths(input.tp_vcf_path, input.fp_vcf_path))

Call_Split_Info ==
    /\ pc = "call" /\ input.fn = "Split_Info"
    /\ Return(Split_Info(input.info))

Call_AF_Split_Info ==
    /\ pc = "call" /\ input.fn = "AF_Split_Info"
    /\ Return(AF_Split_Info(input.info))

Next ==
    \/ Call_Check_SNP
    \/ Call_AF_Check_SNP
    \/ Call_Add_Filter
    \/ Call_AF_Add_Filter
    \/ Call_Check_Type
    \/ Call_Build_Model
    \/ Call_Get_Name
    \/ Call_AF_Get_Name
    \/ Call_Get_Header
    \/ Call_AF_Get_Header
    \/ Call_Check_VCF_Paths
    \/ Call_Split_Info
    \/ Call_AF_Split_Info

Spec == Init /\ [][Next]_vars

(***************************************************************************)
(* The apply workflow: apply_filter.py, run as a script.                   *)
(*                                                                         *)
(* pandas.  read_csv(delimiter="\t", comment="#", names=<10 names>) takes  *)
(* the lines that do not start with '#', splits them at the tabs and pads  *)
(* a short line with NaN.  A first line with more fields than names makes  *)
(* its leading fields the index of the table (the names go to the last 10  *)
(* fields).  The field count later lines may not exceed is the number of   *)
(* names in some builds, and the larger of that and the first line's count *)
(* in others: PandasBuilds holds both.  A column whose cells all read as   *)
(* numbers is stored as numbers, and to_csv writes a float by its repr.    *)
(***************************************************************************)
Columns ==
    <<"CHROM", "POS", "ID", "REF", "ALT", "QUAL", "FILTER", "INFO", "FORMAT",
      "CALLS">>
ColumnSet == {Columns[i] : i \in 1..Len(Columns)}
PandasBuilds == {"names", "max"}

Fields(line) == split(line, "\t")
DataLines(file) == SelectSeq(file, LAMBDA l : ~startswithHash(l))

\* the texts read_csv reads as numbers, and how to_csv writes them as floats
IntTexts == {"1", "100", "30"}
FloatTexts == {"30.50"}
IsNumber(cell) == Len(cell) = 1 /\ cell[1] \in IntTexts \cup FloatTexts
FloatRepr(tok) ==
    CASE tok = "30.50" -> "30.5"
      [] tok = "30" -> "30.0"
      [] tok = "100" -> "100.0"
      [] tok = "1" -> "1.0"

AF_Open_VCF(file, build) ==
    LET lines == DataLines(file)
        n == Len(lines)
        fields == Listed([i \in 1..n |-> Fields(lines[i])])
        names == Len(Columns)
        width == IF n > 0 /\ Len(fields[1]) > names THEN Len(fields[1]) ELSE names
        expected == IF build = "max" THEN width ELSE names
        leading == width - names
        raw == Listed([i \in 1..n |->
                   Listed([j \in 1..names |->
                       IF leading + j <= Len(fields[i])
                       THEN fields[i][leading + j] ELSE NaN])])
        \* a column whose cells all read as numbers is stored as numbers:
        \* as floats (written by their repr) unless all are integers
        floats == Listed([j \in 1..names |->
                      /\ \A i \in 1..n : IsNumber(raw[i][j])
                      /\ \E i \in 1..n : raw[i][j][1] \notin IntTexts])
        stored == [i \in 1..n |->
                      [j \in 1..names |->
                          IF floats[j] THEN <<FloatRepr(raw[i][j][1])>>
                          ELSE raw[i][j]]]
    IN  IF \E i \in 2..n : Len(fields[i]) > expected
        THEN Raise("ParserError")
        ELSE Ok([index |-> [i \in 1..n |-> SubSeq(fields[i], 1, leading)],
                 rows |-> [i \in 1..n |->
                              [c \in ColumnSet |->
                                  stored[i][CHOOSE k \in 1..names : Columns[k] = c]]]])

dictKeys(d) == {d[i][1] : i \in 1..Len(d)}
dictGet(d, k) == (CHOOSE e \in {d[i] : i \in 1..Len(d)} : e[1] = k)[2]

\* The six columns taken from the table of the dicts, in this order.
InfoColumns == <<"QD", "MQ", "FS", "MQRankSum", "ReadPosRankSum", "SOR">>
\* fillna(0.)
Zero == <<"0.0">>

\* lines 139-140: DataFrame(list(INFO.apply(Split_Info))).fillna(0.)
\*                [['QD', 'MQ', 'FS', 'MQRankSum', 'ReadPosRankSum', 'SOR']]
InfoTable(table) ==
    LET n == Len(table.rows)
        d == Listed([i \in 1..n |-> AF_Split_Info(table.rows[i]["INFO"])])
        keys == UNION {dictKeys(d[i].v) : i \in 1..n}
    IN  IF \E i \in 1..n : IsRaise(d[i])
        THEN d[CHOOSE i \in 1..n : IsRaise(d[i]) /\ \A j \in 1..(i - 1) : ~IsRaise(d[j])]
        ELSE IF \E c \in 1..Len(InfoColumns) : <<InfoColumns[c]>> \notin keys
        THEN Raise("KeyError")
        ELSE Ok([i \in 1..n |->
                    [c \in 1..Len(InfoColumns) |->
                        IF <<InfoColumns[c]>> \in dictKeys(d[i].v)
                        THEN dictGet(d[i].v, <<InfoColumns[c]>>)
                        ELSE Zero]])

(***************************************************************************)
(* Get_Calls_Info.  The column names of the split CALLS are the FORMAT     *)
(* keys of the first row; the split AD gets three names.  to_numeric       *)
(* reads a depth; a ratio is kept as numerator and denominator.            *)
(***************************************************************************)
SetMax(S) == CHOOSE x \in S : \A y \in S : y <= x
DepthTexts == {"0", "2", "5", "7", "10"}
to_numeric(tok) ==
    CASE tok = "0" -> 0 [] tok = "2" -> 2 [] tok = "5" -> 5
      [] tok = "7" -> 7 [] tok = "10" -> 10
ADNames == <<"RefD", "AltD", "AltAltD">>
Position(names, name) == SetMin({k \in 1..Len(names) : names[k] = name})

AF_Get_Calls_Info(table) ==
    LET n == Len(table.rows)
        present == {i \in 1..n : table.rows[i]["CALLS"] # NaN}
        call_fields == Listed([i \in 1..n |->
                           IF i \in present THEN split(table.rows[i]["CALLS"], ":")
                           ELSE <<>>])
        width == SetMax({Len(call_fields[i]) : i \in present})
        FORMAT == split(table.rows[1]["FORMAT"], ":")
        \* call_fields[name]: NaN where the row has no such cell
        column(name) ==
            LET p == Position(FORMAT, name) IN
            Listed([i \in 1..n |->
                       IF p <= Len(call_fields[i]) THEN call_fields[i][p] ELSE NaN])
        GT == column(<<"GT">>)
        AD == LET text == column(<<"AD">>) IN
              Listed([i \in 1..n |->
                         IF text[i] = NaN THEN <<>> ELSE split(text[i], ",")])
        ADwidth == SetMax({Len(AD[i]) : i \in 1..n})
        depth == [i \in 1..n |->
                     [k \in 1..2 |-> IF k <= Len(AD[i]) THEN AD[i][k] ELSE NaN]]
        numeric(c) == c = NaN \/ (Len(c) = 1 /\ c[1] \in DepthTexts)
        row(i) ==
            LET het == IF GT[i] = <<"0/1">> THEN 1 ELSE 0 IN
            IF depth[i][1] = NaN \/ depth[i][2] = NaN
            THEN [het |-> het, RefD |-> NaN, AltD |-> NaN, RDper |-> NaN,
                  ADrat |-> NaN]
            ELSE LET RefD == to_numeric(depth[i][1][1])
                     AltD == to_numeric(depth[i][2][1])
                 IN  [het |-> het, RefD |-> RefD, AltD |-> AltD,
                      RDper |-> IF RefD + AltD = 0 THEN NaN
                                ELSE <<RefD, RefD + AltD>>,
                      ADrat |-> <<10 * AltD, 10 * RefD + 1>>]
    IN  IF n = 0 THEN Raise("KeyError")
        ELSE IF present = {} \/ table.rows[1]["FORMAT"] = NaN
        THEN Raise("AttributeError")
        ELSE IF Len(FORMAT) # width THEN Raise("ValueError")
        ELSE IF \A k \in 1..Len(FORMAT) : FORMAT[k] # <<"GT">>
        THEN Raise("KeyError")
        ELSE IF \A k \in 1..Len(FORMAT) : FORMAT[k] # <<"AD">>
        THEN Raise("KeyError")
        ELSE IF \A i \in 1..n : AD[i] = <<>> THEN Raise("AttributeError")
        ELSE IF ADwidth # Len(ADNames) THEN Raise("ValueError")
        ELSE IF \E i \in 1..n : ~numeric(depth[i][1]) \/ ~numeric(depth[i][2])
        THEN Raise("ValueError")
        ELSE IF \A i \in 1..n : GT[i] # <<"0/1">>
        THEN Raise("KeyError")
        ELSE Ok([i \in 1..n |-> row(i)])

(***************************************************************************)
(* to_csv(sep="\t", header=False, index=False): a row's ten cells, NaN     *)
(* written as the empty text.                                              *)
(***************************************************************************)
to_csv(table) ==
    [i \in 1..Len(table.rows) |->
        join([j \in 1..Len(Columns) |->
                 IF table.rows[i][Columns[j]] = NaN THEN <<>>
                 ELSE table.rows[i][Columns[j]]], "\t")]

(***************************************************************************)
(* The input files of the apply workflow.                                  *)
(***************************************************************************)
MaxRecords == 2

TwoSampleColumnLine == ColumnLine \o <<"\t", "S2">>
FullInfo ==
    <<"QD", "=", "2.0", ";", "MQ", "=", "60.0", ";", "MQRankSum", "=", "0.1", ";",
      "FS", "=", "0.0", ";", "ReadPosRankSum", "=", "0.2", ";", "SOR", "=", "1.0">>
InfoWithoutSOR == SubSeq(FullInfo, 1, 19)
Het3 == <<"0/1", ":", "10", ",", "5", ",", "2">>
Hom3 == <<"1/1", ":", "0", ",", "7", ",", "2">>
Het2 == <<"0/1", ":", "10", ",", "5">>
Hom2 == <<"1/1", ":", "0", ",", "7">>
SnpAlt == <<"T">>
IndelAlt == <<"A", "T">>

Record(alt, qual, info, samples) ==
    join(<< <<"1">>, <<"100">>, <<".">>, <<"A">>, alt, <<qual>>, <<"PASS">>, info,
            <<"GT", ":", "AD">> >> \o samples, "\t")

\* a record whose FORMAT lists AD before GT
SwappedRecord ==
    join(<< <<"1">>, <<"100">>, <<".">>, <<"A">>, SnpAlt, <<"30">>, <<"PASS">>,
            FullInfo, <<"AD", ":", "GT">>, <<"10", ",", "5", ",", "2", ":", "0/1">> >>,
         "\t")

RecordPool ==
    {Record(alt, qual, FullInfo, <<sample>>) :
        alt \in {SnpAlt, IndelAlt}, qual \in {"30", "30.50"},
        sample \in {Het3, Hom3, Het2, Hom2}}
    \cup {Record(SnpAlt, "30", InfoWithoutSOR, <<Het3>>)}
    \cup {Record(SnpAlt, "30", FullInfo, <<Het3, Het3>>)}
    \cup {Record(IndelAlt, "30", FullInfo, <<>>)}
    \cup {SwappedRecord}

ApplyFiles ==
    {<<FileformatLine, cols>> \o records :
        cols \in {ColumnLine, TwoSampleColumnLine},
        records \in SeqsUpTo(RecordPool, MaxRecords)}

(***************************************************************************)
(* SpecApply: the statements of apply_filter.py's main block, in order.    *)
(* An exception ends the run (nothing catches it).  calls records what     *)
(* has been applied so far.  The two pickled models are stubs: Predict_Var *)
(* gets some prediction in {0, 1} for each row.                            *)
(***************************************************************************)
InitApply ==
    /\ pc = "Get_Header"
    /\ input \in [file : ApplyFiles]
    /\ ret = NoRet
    /\ Idle

Fail(r) ==
    /\ pc' = "error"
    /\ ret' = r

\* header = Get_Header(vcf_path)
Main_Get_Header ==
    /\ pc = "Get_Header"
    /\ calls' = calls \cup {"Get_Header"}
    /\ LET r == AF_Get_Header(input.file) IN
       IF IsRaise(r)
       THEN Fail(r) /\ UNCHANGED header
       ELSE pc' = "Open_VCF" /\ header' = r.v /\ UNCHANGED ret
    /\ UNCHANGED <<input, vcf, info_fields, outfile, all_vcf, workers, results>>

\* vcf = Open_VCF(vcf_path)
Main_Open_VCF ==
    /\ pc = "Open_VCF"
    /\ calls' = calls \cup {"Open_VCF"}
    /\ \E build \in PandasBuilds :
        LET r == AF_Open_VCF(input.file, build) IN
        IF IsRaise(r)
        THEN Fail(r) /\ UNCHANGED vcf
        ELSE pc' = "Split_Info" /\ vcf' = r.v /\ UNCHANGED ret
    /\ UNCHANGED <<input, header, info_fields, outfile, all_vcf, workers, results>>

\* info_fields = pd.DataFrame(list(vcf['INFO'].apply(Split_Info))).fillna(0.)
\* info_fields = info_fields[['QD', 'MQ', 'FS', 'MQRankSum', 'ReadPosRankSum', 'SOR']]
Main_Split_Info ==
    /\ pc = "Split_Info"
    /\ calls' = IF Len(vcf.rows) > 0 THEN calls \cup {"Split_Info"} ELSE calls
    /\ LET r == InfoTable(vcf) IN
       IF IsRaise(r)
       THEN Fail(r) /\ UNCHANGED info_fields
       ELSE /\ pc' = "Get_Calls_Info"
            /\ info_fields' = [info |-> r.v, calls |-> <<>>, Is_SNP |-> <<>>,
                               Predict |-> <<>>]
            /\ UNCHANGED ret
    /\ UNCHANGED <<input, header, vcf, outfile, all_vcf, workers, results>>

\* calls = Get_Calls_Info(vcf); info_fields = pd.concat([info_fields, calls], axis=1)
Main_Get_Calls_Info ==
    /\ pc = "Get_Calls_Info"
    /\ calls' = calls \cup {"Get_Calls_Info"}
    /\ LET r == AF_Get_Calls_Info(vcf) IN
       IF IsRaise(r)
       THEN Fail(r) /\ UNCHANGED info_fields
       ELSE /\ pc' = "Check_SNP"
            /\ info_fields' = [info_fields EXCEPT !.calls = r.v]
            /\ UNCHANGED ret
    /\ UNCHANGED <<input, header, vcf, outfile, all_vcf, workers, results>>

\* info_fields['Is_SNP'] = vcf.apply(Check_SNP, axis=1)
Main_Check_SNP ==
    /\ pc = "Check_SNP"
    /\ calls' = calls \cup {"Check_SNP"}
    /\ LET n == Len(vcf.rows)
           r(i) == IF vcf.rows[i]["REF"] = NaN \/ vcf.rows[i]["ALT"] = NaN
                   THEN Raise("TypeError")
                   ELSE AF_Check_SNP(vcf.rows[i]["REF"], vcf.rows[i]["ALT"])
       IN  IF \E i \in 1..n : IsRaise(r(i))
           THEN Fail(r(CHOOSE i \in 1..n : IsRaise(r(i)))) /\ UNCHANGED info_fields
           ELSE /\ pc' = "Predict_Var"
                /\ info_fields' = [info_fields EXCEPT !.Is_SNP = [i \in 1..n |-> r(i).v]]
                /\ UNCHANGED ret
    /\ UNCHANGED <<input, header, vcf, outfile, all_vcf, workers, results>>

\* info_fields['Predict'] = info_fields.apply(Predict_Var, axis=1, args=(snp_mdl, ind_mdl))
Main_Predict_Var ==
    /\ pc = "Predict_Var"
    /\ calls' = calls \cup {"Predict_Var"}
    /\ \E predict \in [1..Len(vcf.rows) -> {0, 1}] :
        info_fields' = [info_fields EXCEPT !.Predict = predict]
    /\ pc' = "Add_Filter"
    /\ UNCHANGED <<input, ret, header, vcf, outfile, all_vcf, workers, results>>

\* vcf['FILTER'] = info_fields.apply(Add_Filter, axis=1)
Main_Add_Filter ==
    /\ pc = "Add_Filter"
    /\ calls' = calls \cup {"Add_Filter"}
    /\ vcf' = [vcf EXCEPT !.rows =
                  [i \in 1..Len(vcf.rows) |->
                      [vcf.rows[i] EXCEPT !["FILTER"] =
                          <<AF_Add_Filter(info_fields.Is_SNP[i], info_fields.Predict[i])>>]]]
    /\ pc' = "Write_VCF"
    /\ UNCHANGED <<input, ret, header, info_fields, outfile, all_vcf, workers, results>>

\* Write_VCF: with open(outname, 'w') as vcf_out: the header lines
Main_Write_VCF ==
    /\ pc = "Write_VCF"
    /\ calls' = calls \cup {"Write_VCF"}
    /\ outfile' = [exists |-> TRUE, lines |-> header]
    /\ pc' = "to_csv"
    /\ UNCHANGED <<input, ret, header, vcf, info_fields, all_vcf, workers, results>>

\* Write_VCF: table.to_csv(outname, sep='\t', header=False, mode='a', index=False)
Main_to_csv ==
    /\ pc = "to_csv"
    /\ outfile' = [outfile EXCEPT !.lines = @ \o to_csv(vcf)]
    /\ pc' = "done"
    /\ UNCHANGED <<input, ret, calls, header, vcf, info_fields, all_vcf,
                   workers, results>>

NextApply ==
    \/ Main_Get_Header
    \/ Main_Open_VCF
    \/ Main_Split_Info
    \/ Main_Get_Calls_Info
    \/ Main_Check_SNP
    \/ Main_Predict_Var
    \/ Main_Add_Filter
    \/ Main_Write_VCF
    \/ Main_to_csv

SpecApply == InitApply /\ [][NextApply]_vars

(***************************************************************************)
(* The train workflow: train_model.py, run as a script.                    *)
(*                                                                         *)
(* Its Open_VCF, Split_Info and Get_Calls_Info are the same text as the    *)
(* apply script's.  The module it calls cm (confusion_matrix) is not part  *)
(* of the sources: cm.check_type either accepts the type or rejects it as  *)
(* the library's Check_Type does, cm.Build_Model is the library's.         *)
(*                                                                         *)
(* multiprocessing.  Pool(processes=njobs) starts njobs worker processes.  *)
(* pool.map hands the pairs out in order, one pair a task (the chunk size  *)
(* is 1 for fewer than 4 * njobs pairs), and puts each task's result at    *)
(* the task's position.  The first exception a task raises is the one map  *)
(* raises in the main process: at once in some builds, when all tasks are  *)
(* through in others.  Workers go on until the pool is terminated.         *)
(***************************************************************************)
DefaultJobs == 2
PythonBuilds == {"2", "3"}

\* the files on disk
TruePosFile == <<FileformatLine, ColumnLine, Record(SnpAlt, "30", FullInfo, <<Het3>>)>>
FalsePosFile ==
    <<FileformatLine, ColumnLine, Record(SnpAlt, "30", FullInfo, <<Het3>>),
      Record(IndelAlt, "30.50", FullInfo, <<Hom3>>)>>
OnDisk(path) == path \in {<<"tp.vcf">>, <<"fp.vcf">>}
Disk(path) == IF path = <<"tp.vcf">> THEN TruePosFile ELSE FalsePosFile

\* Make_Table: the six INFO columns, the five columns of calls, the label
TM_Make_Table(path, label, build) ==
    IF ~OnDisk(path) THEN Raise("IOError")
    ELSE LET var_vcf == AF_Open_VCF(Disk(path), build) IN
         IF IsRaise(var_vcf) THEN var_vcf
         ELSE LET info == InfoTable(var_vcf.v) IN
              IF IsRaise(info) THEN info
              ELSE LET c == AF_Get_Calls_Info(var_vcf.v) IN
                   IF IsRaise(c) THEN c
                   ELSE Ok([i \in 1..Len(var_vcf.v.rows) |->
                               [info |-> info.v[i], calls |-> c.v[i],
                                label |-> label]])

\* Make_Table of each path a string can name, for each label and build,
\* evaluated once
MadeTables ==
    Stored([key \in PathNames \X {0, 1} \X PandasBuilds |->
               TM_Make_Table(key[1], key[2], key[3])])

\* X = array[:,0:11], Y = array[:,11]
Features(table) == [i \in 1..Len(table) |-> [info |-> table[i].info, calls |-> table[i].calls]]
Labels(table) == [i \in 1..Len(table) |-> table[i].label]

RECURSIVE concatenate(_)
concatenate(arrays) ==
    IF arrays = <<>> THEN <<>> ELSE arrays[1] \o concatenate(Tail(arrays))

TrainInputs ==
    [tp_vcf : PathStrings, fp_vcf : PathStrings,
     poly : {PyStr("SNP"), PyStr("george")}, njobs : 1..DefaultJobs]

InitTrain ==
    /\ pc = "get_options"
    /\ input \in TrainInputs
    /\ ret = NoRet
    /\ Idle

\* get_options: cm.check_type(poly)
Main_get_options ==
    /\ pc = "get_options"
    /\ calls' = calls \cup {"get_options"}
    /\ \E r \in {RetNone, Check_Type(input.poly)} :
        IF IsRaise(r) THEN Fail(r) ELSE pc' = "Check_VCF_Paths" /\ UNCHANGED ret
    /\ UNCHANGED <<input, header, vcf, info_fields, outfile, all_vcf, workers, results>>

\* all_vcf = Check_VCF_Paths(tp_vcf, fp_vcf)
Main_Check_VCF_Paths ==
    /\ pc = "Check_VCF_Paths"
    /\ calls' = calls \cup {"Check_VCF_Paths"}
    /\ LET r == TM_Check_VCF_Paths(input.tp_vcf, input.fp_vcf) IN
       IF IsRaise(r)
       THEN Fail(r) /\ UNCHANGED all_vcf
       ELSE pc' = "Pool" /\ all_vcf' = r.v /\ UNCHANGED ret
    /\ UNCHANGED <<input, header, vcf, info_fields, outfile, workers, results>>

\* with closing(Pool(processes=njobs)) as pool: the workers start
IdleWorker == [at |-> "idle", task |-> 0, tp |-> <<>>]

Main_Pool ==
    /\ pc = "Pool"
    /\ calls' = calls \cup {"Pool"}
    /\ workers' = [w \in 1..input.njobs |-> IdleWorker]
    /\ pc' = "map"
    /\ UNCHANGED <<input, ret, header, vcf, info_fields, outfile, all_vcf, results>>

\* results = pool.map(Get_Training_Tables, all_vcf): the tasks are queued
Main_map ==
    /\ pc = "map"
    /\ results' = [i \in 1..Len(all_vcf) |-> NoRet]
    /\ pc' = "join"
    /\ UNCHANGED <<input, ret, calls, header, vcf, info_fields, outfile, all_vcf,
                   workers>>

Queued ==
    {i \in 1..Len(results) :
        results[i] = NoRet /\ \A w \in 1..Len(workers) : workers[w].task # i}

\* a worker takes the next task of the queue
Worker_Take(w) ==
    /\ pc \in {"join", "error"}
    /\ workers[w].at = "idle"
    /\ Queued # {}
    /\ workers' = [workers EXCEPT ![w] = [at |-> "tp", task |-> SetMin(Queued),
                                          tp |-> <<>>]]
    /\ UNCHANGED <<pc, input, ret, calls, header, vcf, info_fields, outfile,
                   all_vcf, results>>

\* results kept in the order the tasks complete
Deliver_InCompletionOrder(w, r) ==
    /\ results' = [results EXCEPT
                      ![SetMin({i \in 1..Len(results) : results[i] = NoRet})] = r]
    /\ workers' = [workers EXCEPT ![w] = IdleWorker]
    /\ ret' = IF IsRaise(r) /\ ret = NoRet THEN r ELSE ret

\* a task's result reaches the main process: the first failure is kept for map
Deliver(w, r) ==
    /\ results' = [results EXCEPT ![workers[w].task] = r]
    /\ workers' = [workers EXCEPT ![w] = IdleWorker]
    /\ ret' = IF IsRaise(r) /\ ret = NoRet THEN r ELSE ret

\* Get_Training_Tables: tp_snp_vcf = Make_Table(tp_vcf, 1), then
\* fp_snp_vcf = Make_Table(fp_vcf, 0) and the return of X and Y
Worker_Make_Table(w) ==
    /\ pc \in {"join", "error"}
    /\ workers[w].at \in {"tp", "fp"}
    /\ calls' = calls \cup {"Open_VCF"}
    /\ \E build \in PandasBuilds :
        \E r \in {MadeTables[<<all_vcf[workers[w].task][IF workers[w].at = "tp" THEN 1 ELSE 2],
                             IF workers[w].at = "tp" THEN 1 ELSE 0, build>>]} :
            IF IsRaise(r) THEN Deliver(w, r)
            ELSE IF workers[w].at = "tp"
            THEN /\ workers' = [workers EXCEPT ![w].at = "fp", ![w].tp = r.v]
                 /\ UNCHANGED <<ret, results>>
            ELSE \E full_vcf \in {workers[w].tp \o r.v} :
                    Deliver(w, Ok([X |-> Features(full_vcf), Y |-> Labels(full_vcf)]))
    /\ UNCHANGED <<pc, input, header, vcf, info_fields, outfile, all_vcf>>

\* pool.map raises the first exception of a task
Main_map_raises ==
    /\ pc = "join"
    /\ IsRaise(ret)
    /\ pc' = "error"
    /\ UNCHANGED <<input, ret, calls, header, vcf, info_fields, outfile, all_vcf,
                   workers, results>>

\* pool.map returns once every task has returned
Main_map_returns ==
    /\ pc = "join"
    /\ \A i \in 1..Len(results) : IsOk(results[i])
    /\ pc' = "terminate"
    /\ UNCHANGED <<input, ret, calls, header, vcf, info_fields, outfile, all_vcf,
                   workers, results>>

\* pool.terminate()
Main_terminate ==
    /\ pc = "terminate"
    /\ workers' = <<>>
    /\ pc' = "concatenate"
    /\ UNCHANGED <<input, ret, calls, header, vcf, info_fields, outfile, all_vcf,
                   results>>

\* X, Y = zip(*results); X_all = np.concatenate(X); Y_all = np.concatenate(Y)
Main_concatenate ==
    /\ pc = "concatenate"
    /\ info_fields' =
         [X_all |-> concatenate([i \in 1..Len(results) |-> results[i].v.X]),
          Y_all |-> concatenate([i \in 1..Len(results) |-> results[i].v.Y])]
    /\ pc' = "Build_Model"
    /\ UNCHANGED <<input, ret, calls, header, vcf, outfile, all_vcf, workers,
                   results>>

\* model = cm.Build_Model(poly, njobs); header holds the pair model
Main_Build_Model ==
    /\ pc = "Build_Model"
    /\ calls' = calls \cup {"Build_Model"}
    /\ LET r == Build_Model(input.poly, input.njobs) IN
       IF IsRaise(r)
       THEN Fail(r) /\ UNCHANGED header
       ELSE pc' = "print" /\ header' = r.v /\ UNCHANGED ret
    /\ UNCHANGED <<input, vcf, info_fields, outfile, all_vcf, workers, results>>

\* print("Training {} on {}").format(model[0], all_vcf): a statement that
\* prints the formatted text in Python 2, a call of print whose result has
\* no format in Python 3
Main_print ==
    /\ pc = "print"
    /\ \E python \in PythonBuilds :
        IF python = "3" THEN Fail(Raise("AttributeError"))
        ELSE pc' = "fit" /\ UNCHANGED ret
    /\ UNCHANGED <<input, calls, header, vcf, info_fields, outfile, all_vcf,
                   workers, results>>

\* model[1].fit(X_all, Y_all); pickle.dump(model[1], out)
Main_fit ==
    /\ pc = "fit"
    /\ calls' = calls \cup {"fit"}
    /\ outfile' = [exists |-> TRUE, lines |-> <<header[2]>>]
    /\ pc' = "done"
    /\ UNCHANGED <<input, ret, header, vcf, info_fields, all_vcf, workers, results>>

NextTrain ==
    \/ Main_get_options
    \/ Main_Check_VCF_Paths
    \/ Main_Pool
    \/ Main_map
    \/ \E w \in 1..Len(workers) : Worker_Take(w)
    \/ \E w \in 1..Len(workers) : Worker_Make_Table(w)
    \/ Main_map_raises
    \/ Main_map_returns
    \/ Main_terminate
    \/ Main_concatenate
    \/ Main_Build_Model
    \/ Main_print
    \/ Main_fit

SpecTrain == InitTrain /\ [][NextTrain]_vars

(***************************************************************************)
(* The claims about the single calls.                                      *)
(***************************************************************************)
Called(fns) == pc = "done" /\ input.fn \in fns

\* The '#' lines a file starts with: those before its first other line.
FirstOther(file) ==
    IF \E i \in 1..Len(file) : ~startswithHash(file[i])
    THEN SetMin({i \in 1..Len(file) : ~startswithHash(file[i])})
    ELSE Len(file) + 1
HeaderOf(file) == SubSeq(file, 1, FirstOther(file) - 1)

IsFilterMeta(line) == Len(line) >= 2 /\ line[1] = "##" /\ line[2] = "FILTER"
IsColumnLine(line) == Len(line) >= 2 /\ line[1] = "#" /\ line[2] = "CHROM"
\* '##' lines, then the '#CHROM' line with its FILTER column
WellFormedHeader(hdr) ==
    /\ Len(hdr) >= 1
    /\ hdr[Len(hdr)] = ColumnLine
    /\ \A i \in 1..(Len(hdr) - 1) : hdr[i][1] = "##"
InjectedBy(fn) == IF fn = "Get_Header" THEN EVF_FilterLines ELSE XGB_FilterLines
InjectedOnce(hdr, lines) ==
    LET k == SetMin({i \in 1..Len(hdr) :
                        IsFilterMeta(hdr[i]) \/ IsColumnLine(hdr[i])})
    IN  SubSeq(hdr, 1, k - 1) \o lines \o SubSeq(hdr, k, Len(hdr))

\* C2: for a header of '##' lines (any number of them FILTER lines) ending
\* in the '#CHROM' line, the scan of Get_Header adds the pair of injected
\* lines exactly once, immediately before the first FILTER metadata line or
\* the column line, and never again.
C2_InjectedExactlyOnce ==
    (Called({"Get_Header", "AF_Get_Header"})
        /\ WellFormedHeader(HeaderOf(input.file)))
    => header = InjectedOnce(HeaderOf(input.file), InjectedBy(input.fn))

\* C3: Get_Header returns a list that holds every original '#' line once,
\* in order and unchanged, and besides them only the injected lines; no
\* data record is in it.
C3_HeaderPreserved ==
    Called({"Get_Header", "AF_Get_Header"})
    => /\ IsOk(ret)
       /\ SelectSeq(ret.v, LAMBDA l : \A i \in 1..2 : l # InjectedBy(input.fn)[i])
            = HeaderOf(input.file)

\* The alleles of ALT by the places of its commas.
Commas(alt) == {i \in 1..Len(alt) : alt[i] = ","}
FirstAltLen(alt) == SetMin(Commas(alt)) - 1
SecondAltLen(alt) ==
    LET c1 == SetMin(Commas(alt))
        later == {i \in Commas(alt) : i > c1}
    IN  IF later = {} THEN Len(alt) - c1 ELSE SetMin(later) - c1 - 1
IsSNP(ref, alt) ==
    IF Commas(alt) # {}
    THEN Len(ref) = 1 /\ (FirstAltLen(alt) = 1 \/ SecondAltLen(alt) = 1)
    ELSE Len(ref) = 1 /\ Len(alt) = 1

\* C4: Check_SNP never fails and returns 1 (SNP) exactly when len(REF) = 1
\* and, with a comma in ALT, the first or the second allele has length 1
\* (later alleles ignored), without a comma, len(ALT) = 1; 0 (INDEL) otherwise.
C4_CheckSNP ==
    Called({"Check_SNP", "AF_Check_SNP"})
    => /\ IsOk(ret)
       /\ ret.v = IF IsSNP(input.REF, input.ALT) THEN 1 ELSE 0

\* a third allele of length 1 after two longer ones: not a SNP
C4_Witness ==
    /\ Called({"Check_SNP"})
    /\ input.REF = <<"A">>
    /\ input.ALT = <<"A", "A", ",", "A", "A", ",", "A">>
    /\ ret = Ok(0)

\* C5: Add_Filter returns the SNP-fail tag iff SNP and prediction 0, the
\* indel-fail tag iff INDEL and prediction 0, "." otherwise, "." whenever
\* the prediction is 1, and nothing else.
C5_AddFilter ==
    Called({"Add_Filter", "AF_Add_Filter"})
    => LET snpFail == IF input.fn = "Add_Filter" THEN "EVF_SNP" ELSE "XGB_SNP"
           indelFail == IF input.fn = "Add_Filter" THEN "EVF_IND" ELSE "XGB_IND"
       IN  /\ IsOk(ret)
           /\ ret.v \in {snpFail, indelFail, "."}
           /\ ret.v = snpFail <=> (input.Is_SNP = 1 /\ input.Predict = 0)
           /\ ret.v = indelFail <=> (input.Is_SNP = 0 /\ input.Predict = 0)
           /\ input.Predict = 1 => ret.v = "."

C5_Witness ==
    /\ Called({"Add_Filter"})
    /\ input.Is_SNP = 1 /\ input.Predict = 0
    /\ ret = Ok("EVF_SNP")

\* The name the claim gives: the tokens after the last "/", without a final
\* ".gz", without the last extension, then ".filter.vcf".
Places(s, t) == {i \in 1..Len(s) : s[i] = t}
AfterLast(s, t) ==
    IF Places(s, t) = {} THEN s
    ELSE SubSeq(s, (CHOOSE i \in Places(s, t) : \A j \in Places(s, t) : j <= i) + 1, Len(s))
BeforeLast(s, t) ==
    SubSeq(s, 1, (CHOOSE i \in Places(s, t) : \A j \in Places(s, t) : j <= i) - 1)
EndsInGz(s) == Len(s) >= 2 /\ s[Len(s) - 1] = "." /\ s[Len(s)] = "gz"
Uncompressed(path) ==
    LET name == AfterLast(path, "/") IN
    IF EndsInGz(name) THEN BeforeLast(name, ".") ELSE name
HasExtension(path) == Places(Uncompressed(path), ".") # {}
NamedOutput(path) ==
    BeforeLast(Uncompressed(path), ".") \o <<".", "filter", ".", "vcf">>

\* C6: for a path whose file name has an extension (besides a final ".gz"),
\* Get_Name of the library and of the apply script both give the file name
\* without the ".gz" and without its last extension, plus ".filter.vcf".
C6_OutputName ==
    (Called({"Get_Name", "AF_Get_Name"}) /\ HasExtension(input.path))
    => ret = Ok(NamedOutput(input.path))

Accepted(poly) == poly.type = "str" /\ poly.str \in {"SNP", "INDEL"}

\* C7: Check_Type returns without raising for 'SNP' and 'INDEL' and raises
\* ValueError for every other value; Build_Model raises ValueError for every
\* value Check_Type rejects.
C7_TypeValidation ==
    /\ Called({"Check_Type"})
        => /\ Accepted(input.poly) => ret = RetNone
           /\ ~Accepted(input.poly) => Raises(ret, "ValueError")
    /\ (Called({"Build_Model"}) /\ IsRaise(Check_Type(input.poly)))
        => Raises(ret, "ValueError")

C7_Witness ==
    /\ Called({"Check_Type"})
    /\ input.poly = PyStr("SNPS")
    /\ Raises(ret, "ValueError")

\* The value an INFO string gives to a key: the text after "KEY=" of the
\* last entry that starts with it.
InfoEntries(info, key) ==
    {k \in 1..Len(split(info, ";")) :
        LET part == split(info, ";")[k] IN
        Len(part) >= 2 /\ part[1] = key /\ part[2] = "="}
InfoValue(info, key) ==
    LET part == split(info, ";")[SetMax(InfoEntries(info, key))] IN
    SubSeq(part, 3, Len(part))
RecognizedKeys == {"QD", "MQ", "MQRankSum", "FS", "ReadPosRankSum", "SOR"}

\* C13: Split_Info never fails and returns a mapping whose keys are all
\* among the six recognized keys, each with the value of its own entry;
\* an entry whose key only contains a recognized name, a flag without "="
\* and an unrecognized entry are not kept.
C13_OnlyRecognizedKeys ==
    Called({"Split_Info", "AF_Split_Info"})
    => /\ IsOk(ret)
       /\ \A e \in 1..Len(ret.v) :
            /\ \E key \in RecognizedKeys : ret.v[e][1] = <<key>>
            /\ \A key \in RecognizedKeys :
                 ret.v[e][1] = <<key>> => ret.v[e][2] = InfoValue(input.info, key)
       /\ \A key \in RecognizedKeys :
            InfoEntries(input.info, key) # {}
            => \E e \in 1..Len(ret.v) : ret.v[e][1] = <<key>>

(***************************************************************************)
(* The claims about the apply workflow.                                    *)
(***************************************************************************)
Ended == pc \in {"done", "error"}
InputRecords == DataLines(input.file)
OutputRecords == SubSeq(outfile.lines, Len(header) + 1, Len(outfile.lines))
FilterColumn == 7
\* every data line is a variant record: ten fields
TenFieldInput ==
    /\ Len(InputRecords) >= 1
    /\ \A i \in 1..Len(InputRecords) : Len(Fields(InputRecords[i])) = Len(Columns)
TypeOf(fields) == IF IsSNP(fields[4], fields[5]) THEN 1 ELSE 0

\* C1: for every sequence of (ten-field) variant records the run emits one
\* output record per input record, in input order, equal to its input
\* record in the nine columns other than FILTER, with the tag decided from
\* that record's type and prediction in FILTER.
C1_OneOutputPerRecord ==
    (Ended /\ TenFieldInput)
    => /\ outfile.exists
       /\ Len(OutputRecords) = Len(InputRecords)
       /\ \A i \in 1..Len(InputRecords) :
            LET in == Fields(InputRecords[i])
                out == Fields(OutputRecords[i])
            IN  /\ Len(out) = Len(in)
                /\ \A j \in (1..Len(in)) \ {FilterColumn} : out[j] = in[j]
                /\ out[FilterColumn]
                     = <<AF_Add_Filter(TypeOf(in), info_fields.Predict[i])>>

\* a file of a two-sample layout: eleven columns named, eleven fields a line
TwoSampleInput ==
    /\ input.file[2] = TwoSampleColumnLine
    /\ Len(InputRecords) >= 1
    /\ \A i \in 1..Len(InputRecords) : Len(Fields(InputRecords[i])) = Len(Columns) + 1
Extraction == {"Split_Info", "Get_Calls_Info", "Predict_Var"}

\* C8: an input with eleven fields a line and a second sample column is
\* rejected with an error before any feature extraction or prediction is
\* attempted on any of its records.
C8_TwoSamplesRejectedFirst ==
    TwoSampleInput => (pc # "done" /\ calls \cap Extraction = {})

AllTagged ==
    /\ {"Open_VCF", "Split_Info", "Get_Calls_Info", "Check_SNP", "Predict_Var",
        "Add_Filter"} \subseteq calls
    /\ Len(vcf.rows) = Len(InputRecords)
    /\ \A i \in 1..Len(vcf.rows) :
         vcf.rows[i]["FILTER"]
           = <<AF_Add_Filter(info_fields.Is_SNP[i], info_fields.Predict[i])>>

\* a format error: a data line without exactly ten tab-separated fields
WrongFieldCount ==
    \E i \in 1..Len(InputRecords) : Len(Fields(InputRecords[i])) # Len(Columns)

\* C10: the output file does not exist until every input record has been
\* parsed, feature-extracted, classified and tagged; a run whose input has
\* a format error at some record aborts as a whole: it does not complete
\* and leaves no output file.
C10_NoOutputBeforeAllTagged ==
    /\ outfile.exists => (pc \in {"to_csv", "done"} /\ AllTagged)
    /\ WrongFieldCount => (pc # "done" /\ ~outfile.exists)

\* A record's own GT and AD: the cells of CALLS at the places its own
\* FORMAT gives to the keys.
FormatKeys(fields) == split(fields[9], ":")
CallCells(fields) == split(fields[10], ":")
OwnCell(fields, key) ==
    CallCells(fields)[CHOOSE k \in 1..Len(FormatKeys(fields)) :
                          FormatKeys(fields)[k] = <<key>>]
OwnDepths(fields) == split(OwnCell(fields, "AD"), ",")
\* FORMAT lists GT and AD, CALLS has a cell for each key, AD has at least
\* two values
HasGTandAD(fields) ==
    /\ Len(fields) = Len(Columns)
    /\ \E k \in 1..Len(FormatKeys(fields)) : FormatKeys(fields)[k] = <<"GT">>
    /\ \E k \in 1..Len(FormatKeys(fields)) : FormatKeys(fields)[k] = <<"AD">>
    /\ Len(CallCells(fields)) = Len(FormatKeys(fields))
    /\ Len(OwnDepths(fields)) >= 2
    /\ \A k \in 1..2 : Len(OwnDepths(fields)[k]) = 1
                       /\ OwnDepths(fields)[k][1] \in DepthTexts
Get_Calls_Info_Applied == "Get_Calls_Info" \in calls
Get_Calls_Info_Failed ==
    pc = "error" /\ "Get_Calls_Info" \in calls /\ "Check_SNP" \notin calls

\* C11: in a file whose records all list GT and AD in FORMAT and have at
\* least two AD values, Get_Calls_Info succeeds and gives each record
\* isHet = 1 exactly when its own GT is "0/1", the first AD value as the
\* reference depth and the second as the alternate depth, whatever the
\* other records hold.
C11_CallsOfEachRecord ==
    (/\ Get_Calls_Info_Applied
     /\ Len(InputRecords) >= 1
     /\ \A i \in 1..Len(InputRecords) : HasGTandAD(Fields(InputRecords[i])))
    => /\ ~Get_Calls_Info_Failed
       /\ \A i \in 1..Len(InputRecords) :
            LET fields == Fields(InputRecords[i])
                row == info_fields.calls[i]
            IN  /\ row.het = IF OwnCell(fields, "GT") = <<"0/1">> THEN 1 ELSE 0
                /\ row.RefD = to_numeric(OwnDepths(fields)[1][1])
                /\ row.AltD = to_numeric(OwnDepths(fields)[2][1])

\* The value a record's INFO gives to a recognized key: the text after
\* "KEY=" of the entry that starts with it, 0.0 without such an entry.
OwnInfo(fields, key) ==
    LET parts == split(fields[8], ";")
        own == {k \in 1..Len(parts) :
                   Len(parts[k]) >= 2 /\ parts[k][1] = key /\ parts[k][2] = "="}
    IN  IF own = {} THEN Zero
        ELSE SubSeq(parts[SetMin(own)], 3, Len(parts[SetMin(own)]))
Split_Info_Failed ==
    pc = "error" /\ "Split_Info" \in calls /\ "Get_Calls_Info" \notin calls
CallColumns == {"het", "RefD", "AltD", "RDper", "ADrat"}

\* C12: for a file of ten-field records, extraction gives each record the
\* six INFO values in the order QD, MQ, FS, MQRankSum, ReadPosRankSum, SOR,
\* with 0.0 for a key the record lacks, followed by the five values of its
\* calls (11 in all); a missing key never makes extraction fail, also when
\* it is missing from every record of the file.
C12_ElevenFeatures ==
    (TenFieldInput /\ "Split_Info" \in calls)
    => /\ ~Split_Info_Failed
       /\ \A i \in 1..Len(InputRecords) :
            /\ info_fields.info[i]
                 = [c \in 1..Len(InfoColumns) |->
                       OwnInfo(Fields(InputRecords[i]), InfoColumns[c])]
            /\ info_fields.calls # <<>>
                 => /\ DOMAIN info_fields.calls[i] = CallColumns
                    /\ Len(info_fields.info[i]) + Cardinality(CallColumns) = 11

(***************************************************************************)
(* Claims about the train workflow, checked under SpecTrain.               *)
(***************************************************************************)
\* the paths a comma-separated string names: one more than it has commas,
\* the i-th between the (i-1)-th and the i-th comma
NumPaths(s) == Cardinality(Places(s, ",")) + 1
PathStart(s, i) ==
    IF i = 1 THEN 1
    ELSE 1 + CHOOSE c \in Places(s, ",") :
                 Cardinality({d \in Places(s, ",") : d < c}) = i - 2
PathEnd(s, i) ==
    IF i = NumPaths(s) THEN Len(s)
    ELSE (CHOOSE c \in Places(s, ",") :
              Cardinality({d \in Places(s, ",") : d < c}) = i - 1) - 1
PathAt(s, i) == SubSeq(s, PathStart(s, i), PathEnd(s, i))
PairsInOrder(pairs, tp, fp) ==
    /\ Len(pairs) = NumPaths(tp)
    /\ \A i \in 1..Len(pairs) : pairs[i] = <<PathAt(tp, i), PathAt(fp, i)>>

\* C9: Check_VCF_Paths raises ValueError whenever the two strings name
\* different numbers of paths (also when only one of them has a comma), in
\* the train workflow before any worker has started and before any VCF is
\* opened; for equal numbers it returns the pairs (tp_i, fp_i) in input
\* order, one per path.
C9_UnequalPathsRejected ==
    LET tp == input.tp_vcf
        fp == input.fp_vcf
        r == Check_VCF_Paths(tp, fp)
    IN  /\ NumPaths(tp) # NumPaths(fp) =>
            /\ Raises(r, "ValueError")
            /\ "Check_VCF_Paths" \in calls =>
                 /\ pc = "error" /\ Raises(ret, "ValueError")
                 /\ workers = <<>> /\ results = <<>>
                 /\ calls \cap {"Pool", "Open_VCF"} = {}
        /\ NumPaths(tp) = NumPaths(fp) =>
            /\ IsOk(r) /\ PairsInOrder(r.v, tp, fp)
            /\ "Check_VCF_Paths" \in calls => PairsInOrder(all_vcf, tp, fp)

\* one path against two: only one of the two strings has a comma
C9_Witness ==
    /\ pc = "error"
    /\ "Check_VCF_Paths" \in calls
    /\ Places(input.tp_vcf, ",") = {}
    /\ Places(input.fp_vcf, ",") # {}

\* What a record gives a row of features: the value of each INFO key, the
\* record's own GT and its first two AD values.
ExpectedRow(record) ==
    LET fields == Fields(record) IN
    [info |-> Listed([c \in 1..Len(InfoColumns) |-> OwnInfo(fields, InfoColumns[c])]),
     het |-> IF OwnCell(fields, "GT") = <<"0/1">> THEN 1 ELSE 0,
     RefD |-> to_numeric(OwnDepths(fields)[1][1]),
     AltD |-> to_numeric(OwnDepths(fields)[2][1])]
\* the records of each file, in file order
RecordsOnDisk ==
    Stored([path \in PathNames |->
               Listed([k \in 1..Len(DataLines(Disk(path))) |->
                          ExpectedRow(DataLines(Disk(path))[k])])])
\* The records of a pair of files, true positives first, and their labels.
PairRecords(pair) == RecordsOnDisk[pair[1]] \o RecordsOnDisk[pair[2]]
PairLabels(pair) ==
    [k \in 1..Len(PairRecords(pair)) |->
        IF k <= Len(RecordsOnDisk[pair[1]]) THEN 1 ELSE 0]
RECURSIVE RecordsUpTo(_, _)
RecordsUpTo(pairs, n) ==
    IF n = 0 THEN <<>> ELSE RecordsUpTo(pairs, n - 1) \o PairRecords(pairs[n])
RECURSIVE LabelsUpTo(_, _)
LabelsUpTo(pairs, n) ==
    IF n = 0 THEN <<>> ELSE LabelsUpTo(pairs, n - 1) \o PairLabels(pairs[n])
\* a row of features is the row of this record
RowOf(row, record) ==
    /\ row.info = record.info
    /\ row.calls.het = record.het
    /\ row.calls.RefD = record.RefD
    /\ row.calls.AltD = record.AltD
RowsOf(X, Y, records, labels) ==
    /\ Len(X) = Len(records) /\ Len(Y) = Len(records)
    /\ \A k \in 1..Len(records) : RowOf(X[k], records[k]) /\ Y[k] = labels[k]
Returned == {i \in 1..Len(results) : IsOk(results[i])}
Concatenated == pc \in {"Build_Model", "print", "fit", "done"}

\* C14: whatever the order in which the workers complete, the result at
\* position i is the sub-table of pair i (its true-positive rows labelled 1,
\* then its false-positive rows labelled 0); concatenation starts only when
\* every task has returned and no worker is at work; the training set is
\* the concatenation of the sub-tables in pair order, with as many rows as
\* the input files have records.
C14_ResultsInPairOrder ==
    /\ \A i \in Returned :
         RowsOf(results[i].v.X, results[i].v.Y, PairRecords(all_vcf[i]),
                PairLabels(all_vcf[i]))
    /\ (pc \in {"terminate", "concatenate"} \/ Concatenated)
         => /\ Len(results) = Len(all_vcf)
            /\ Returned = 1..Len(results)
            /\ \A w \in 1..Len(workers) : workers[w].at = "idle"
    /\ Concatenated
         => RowsOf(info_fields.X_all, info_fields.Y_all,
                   RecordsUpTo(all_vcf, Len(all_vcf)), LabelsUpTo(all_vcf, Len(all_vcf)))

\* the second of two different pairs has returned before the first
C14_Witness ==
    /\ pc = "join"
    /\ Len(results) = 2
    /\ all_vcf[1] # all_vcf[2]
    /\ results[1] = NoRet
    /\ IsOk(results[2])

====
